---- MODULE Spec2Model ----
(***************************************************************************)
(* A model of the dynerr crate (src/src/lib.rs): the dynerr! / dynmatch!   *)
(* macros over the type-erased DynError, and the log file operations       *)
(* log, log!, logged_panic!, check! and clean!.                            *)
(*                                                                         *)
(* Texts (file contents, display strings, panic messages) are sequences of *)
(* bytes, one character each; NL is the newline byte.  The file system and *)
(* outcome of each open / write / remove call are the environment: every   *)
(* operation draws the outcome of its system calls from the environment.   *)
(***************************************************************************)
EXTENDS Integers, Sequences, FiniteSets, TLC

VARIABLES
    files,      \* the file system: file name -> Absent or the file's content
    status,     \* "running", or "panicked" once a panic! has been raised
    panic_msg,  \* the message of that panic!, NoMsg while running
    prev,       \* the log or clean call before the last operation, if it returned
    last,       \* the last operation performed (None at first)
    dm          \* the last dynmatch! evaluation

vars == <<files, status, panic_msg, prev, last, dm>>

(***************************************************************************)
(* Bounds of the model.                                                    *)
(***************************************************************************)
MaxLines == 2       \* a log call is explored while the files hold this few lines
MaxGroups == 2      \* groups in one dynmatch! invocation
MaxArms == 2        \* arms in one group

(***************************************************************************)
(* Values.                                                                 *)
(***************************************************************************)
None == [kind |-> "None"]            \* no value: Option::None, no return, no record
Unit == [kind |-> "()"]
NoMsg == <<>>                        \* no panic message
NL == "\n"

\* A path of the file system: absent, or a file with its content.
Absent == [exists |-> FALSE, content |-> <<>>]
File(content) == [exists |-> TRUE, content |-> content]

DEFAULT_LOG == "event.log"                 \* the default of log!, clean!, ...
FileNames == {DEFAULT_LOG, "test.log"}
NoArg == "NoArg"                           \* a macro invoked without a file
FileArgs == {NoArg, "test.log"}

\* The concrete error types of the tests and their payloads.
ErrTypes == {"ExampleError1", "ExampleError2", "io::Error"}
Payloads == {0, 1, 2}
ConcreteErrors == [ty : ErrTypes, val : Payloads]

Min(a, b) == IF a < b THEN a ELSE b

IsPrefix(s, t) == Len(s) <= Len(t) /\ SubSeq(t, 1, Len(s)) = s

IsSuffix(s, t) == Len(s) <= Len(t) /\ SubSeq(t, Len(t) - Len(s) + 1, Len(t)) = s

\* s occurs in t as a contiguous run of bytes
Contains(t, s) == \E i \in 0..(Len(t) - Len(s)) : SubSeq(t, i + 1, i + Len(s)) = s

RECURSIVE CountNL(_)
CountNL(t) == IF t = <<>> THEN 0
              ELSE (IF Head(t) = NL THEN 1 ELSE 0) + CountNL(Tail(t))

(***************************************************************************)
(* DynError = Box<dyn std::error::Error>: the value behind a vtable that   *)
(* carries the TypeId of the concrete type.                                *)
(***************************************************************************)
TypeId(ty) == <<"TypeId", ty>>

\* Box::new(e) coerced to Box<dyn Error>
BoxNew(e) == [type_id |-> TypeId(e.ty), data |-> e.val]

\* dynerr!(e) => return Err(Box::new(e))
dynerr(e) == [tag |-> "Err", err |-> BoxNew(e)]

Ok(v) == [tag |-> "Ok", val |-> v]

\* a u32 success value
U32(n) == [u32 |-> n]

\* Mutant: the cast does not test the TypeId.
downcast_ref_unchecked(b, ty) == [ty |-> ty, val |-> b.data]

\* <dyn Error>::downcast_ref::<ty>()
downcast_ref(b, ty) ==
    IF b.type_id = TypeId(ty) THEN [ty |-> ty, val |-> b.data] ELSE None

(***************************************************************************)
(* Display.                                                                *)
(***************************************************************************)
\* {} of a u32 below 10: its one digit
Digit(n) == <<ToString(n)>>

\* "ExampleError1::ThisError: "
THIS_ERROR_TEXT ==
    << "E", "x", "a", "m", "p", "l", "e", "E", "r", "r", "o", "r", "1",
       ":", ":", "T", "h", "i", "s", "E", "r", "r", "o", "r", ":", " " >>

\* "ExampleError2::ThatError: "
THAT_ERROR_TEXT ==
    << "E", "x", "a", "m", "p", "l", "e", "E", "r", "r", "o", "r", "2",
       ":", ":", "T", "h", "a", "t", "E", "r", "r", "o", "r", ":", " " >>

\* What an io::Error displays: the system's text for its error code.  The
\* io::Errors of the model are 0: EFBIG, 1: EACCES, 2: ENOENT.
\* "File too large (os error 27)"
EFBIG_TEXT ==
    << "F", "i", "l", "e", " ", "t", "o", "o", " ", "l", "a", "r", "g",
       "e", " ", "(", "o", "s", " ", "e", "r", "r", "o", "r", " ", "2",
       "7", ")" >>

\* "Permission denied (os error 13)"
EACCES_TEXT ==
    << "P", "e", "r", "m", "i", "s", "s", "i", "o", "n", " ", "d", "e",
       "n", "i", "e", "d", " ", "(", "o", "s", " ", "e", "r", "r", "o",
       "r", " ", "1", "3", ")" >>

\* "No such file or directory (os error 2)"
ENOENT_TEXT ==
    << "N", "o", " ", "s", "u", "c", "h", " ", "f", "i", "l", "e", " ",
       "o", "r", " ", "d", "i", "r", "e", "c", "t", "o", "r", "y", " ",
       "(", "o", "s", " ", "e", "r", "r", "o", "r", " ", "2", ")" >>

IoErrorText(kind) ==
    IF kind = 0 THEN EFBIG_TEXT ELSE IF kind = 1 THEN EACCES_TEXT ELSE ENOENT_TEXT

\* impl fmt::Display for ExampleError1 / ExampleError2, and io::Error's own
DisplayError(e) ==
    CASE e.ty = "ExampleError1" -> THIS_ERROR_TEXT \o Digit(e.val)
      [] e.ty = "ExampleError2" -> THAT_ERROR_TEXT \o Digit(e.val)
      [] OTHER -> IoErrorText(e.val)

\* The events handed to the logger: string slices (which display as
\* themselves) and boxed errors (which display as the error they hold).
Str(text) == [str |-> text]
StrEvents == {Str(<<"a">>), Str(<<"b", NL, "c">>)}
IsStr(ev) == "str" \in DOMAIN ev
\* The errors that reach the logger (through check! and logged_panic!).
LoggedErrors == {e \in ConcreteErrors : e.ty = "ExampleError1" /\ e.val = 2}
Events == StrEvents \cup {BoxNew(e) : e \in LoggedErrors}

to_string(ev) ==
    IF IsStr(ev) THEN ev.str
    ELSE DisplayError([ty |-> ev.type_id[2], val |-> ev.data])

(***************************************************************************)
(* The environment: how the system calls of one operation end.             *)
(*   open    IoOk, or the io::Error OpenOptions::open fails with           *)
(*   write   IoOk, or the io::Error write_all fails with, after `written`  *)
(*           bytes of the data reached the file                            *)
(*   stat    IoOk, or the io::Error the stat of an existing path fails     *)
(*           with (Path::exists then answers false)                        *)
(*   remove  IoOk, or the io::Error remove_file fails with                 *)
(***************************************************************************)
IoOk == [kind |-> "ok"]
IoError(kind) == [ty |-> "io::Error", val |-> kind]

LogOutcomes(ev) ==
    LET n == Len(to_string(ev)) + 1
    IN  {[open |-> IoOk, write |-> IoOk, written |-> n]}
        \cup {[open |-> e, write |-> IoOk, written |-> 0] : e \in {IoError(1)}}
        \cup {[open |-> IoOk, write |-> e, written |-> k] :
                 e \in {IoError(0)}, k \in 0..(n - 1)}

CleanOutcomes == [stat : {IoOk, IoError(1)}, remove : {IoOk, IoError(1)}]

\* An operation's outcome: the file system it leaves, whether it panicked and
\* with which message, the value it returned (None when it did not return),
\* and the effects it had, in order.
Outcome(fs, panicked, msg, ret, effects) ==
    [files |-> fs, panicked |-> panicked, msg |-> msg, ret |-> ret,
     effects |-> effects]

(***************************************************************************)
(* pub fn clean_log(log_file: &str)                                        *)
(***************************************************************************)
\* Path::new(log_file).exists(): true when the path can be stat-ed; false
\* when there is no such file, and also when the stat of a file fails.
PathExists(fs, log_file, stat) == fs[log_file].exists /\ stat = IoOk

\* "Dynerr: Error cleaning file: "
CLEAN_PANIC_TEXT ==
    << "D", "y", "n", "e", "r", "r", ":", " ", "E", "r", "r", "o", "r",
       " ", "c", "l", "e", "a", "n", "i", "n", "g", " ", "f", "i", "l",
       "e", ":", " " >>

clean_log(fs, log_file, oc) ==
    IF PathExists(fs, log_file, oc.stat)
    THEN IF oc.remove = IoOk
         THEN Outcome([fs EXCEPT ![log_file] = Absent], FALSE, NoMsg, Unit,
                      << <<"stat", log_file>>, <<"remove", log_file>> >>)
         ELSE Outcome(fs, TRUE,
                      CLEAN_PANIC_TEXT \o DisplayError(oc.remove),
                      None, << <<"stat", log_file>>, <<"remove failed", log_file>> >>)
    ELSE Outcome(fs, FALSE, NoMsg, Unit,
                 << <<IF fs[log_file].exists THEN "stat failed" ELSE "stat",
                      log_file>> >>)

\* clean!() / clean!(log): the file a macro invoked with this argument acts on
FileOf(arg) == IF arg = NoArg THEN DEFAULT_LOG ELSE arg

clean(fs, arg, oc) == clean_log(fs, FileOf(arg), oc)

(***************************************************************************)
(* pub fn log<T: fmt::Display>(event: T, log_file: &str) -> T              *)
(***************************************************************************)
\* "log file created"
SENTINEL_TEXT ==
    << "l", "o", "g", " ", "f", "i", "l", "e", " ", "c", "r", "e", "a",
       "t", "e", "d" >>

\* Mutant: a file that is created starts with a "file created" entry.
Opened_sentinel(fs, log_file) ==
    IF fs[log_file].exists THEN fs
    ELSE [fs EXCEPT ![log_file] = File(SENTINEL_TEXT \o <<NL>>)]

\* OpenOptions::new().append(true).create(true).open(log_file), succeeding
Opened(fs, log_file) ==
    IF fs[log_file].exists THEN fs ELSE [fs EXCEPT ![log_file] = File(<<>>)]

\* format!("{}\n", event.to_string())
LogData(event) == to_string(event) \o <<NL>>

\* Mutant: the file is opened for writing at its start, not for appending.
Appended_overwrite(fs, log_file, data, n) ==
    LET old == fs[log_file].content
        new == SubSeq(data, 1, n)
    IN  [fs EXCEPT ![log_file] = File(new \o SubSeq(old, Len(new) + 1, Len(old)))]

\* the first n bytes of data appended to the file (append mode)
Appended(fs, log_file, data, n) ==
    [fs EXCEPT ![log_file] = File(@.content \o SubSeq(data, 1, n))]

\* "Dynerr: Error opening log during crash: "
OPEN_PANIC_TEXT ==
    << "D", "y", "n", "e", "r", "r", ":", " ", "E", "r", "r", "o", "r",
       " ", "o", "p", "e", "n", "i", "n", "g", " ", "l", "o", "g", " ",
       "d", "u", "r", "i", "n", "g", " ", "c", "r", "a", "s", "h", ":",
       " " >>

\* "Dynerr: Error appending to log during crash: "
APPEND_PANIC_TEXT ==
    << "D", "y", "n", "e", "r", "r", ":", " ", "E", "r", "r", "o", "r",
       " ", "a", "p", "p", "e", "n", "d", "i", "n", "g", " ", "t", "o",
       " ", "l", "o", "g", " ", "d", "u", "r", "i", "n", "g", " ", "c",
       "r", "a", "s", "h", ":", " " >>

\* " (error passed to logger was: "
PASSED_TEXT ==
    << " ", "(", "e", "r", "r", "o", "r", " ", "p", "a", "s", "s", "e",
       "d", " ", "t", "o", " ", "l", "o", "g", "g", "e", "r", " ", "w",
       "a", "s", ":", " " >>

OpenPanicMsg(e, event) ==
    OPEN_PANIC_TEXT \o DisplayError(e)
        \o PASSED_TEXT \o to_string(event) \o <<")">>

WritePanicMsg(e, event) ==
    APPEND_PANIC_TEXT \o DisplayError(e)
        \o PASSED_TEXT \o to_string(event) \o <<")">>

\* Mutant: the result of write_all is dropped and the event returned.
log_ignores_write_error(fs, event, log_file, oc) ==
    IF oc.open # IoOk
    THEN Outcome(fs, TRUE, OpenPanicMsg(oc.open, event), None,
                 << <<"open failed", log_file>> >>)
    ELSE LET data == LogData(event)
         IN  Outcome(Appended(Opened(fs, log_file), log_file, data,
                              IF oc.write = IoOk THEN Len(data)
                              ELSE Min(oc.written, Len(data) - 1)),
                     FALSE, NoMsg, event,
                     << <<"open", log_file>>, <<"write", log_file, data>> >>)

log(fs, event, log_file, oc) ==
    IF oc.open # IoOk
    THEN Outcome(fs, TRUE, OpenPanicMsg(oc.open, event), None,
                 << <<"open failed", log_file>> >>)
    ELSE LET data == LogData(event)
         IN  IF oc.write = IoOk
             THEN Outcome(Appended(Opened(fs, log_file), log_file, data, Len(data)),
                          FALSE, NoMsg, event,
                          << <<"open", log_file>>, <<"write", log_file, data>> >>)
             ELSE Outcome(Appended(Opened(fs, log_file), log_file, data,
                                   Min(oc.written, Len(data) - 1)),
                          TRUE, WritePanicMsg(oc.write, event), None,
                          << <<"open", log_file>>, <<"write failed", log_file>> >>)

\* log!(event) / log!(event, log)
log_macro(fs, event, arg, oc) == log(fs, event, FileOf(arg), oc)

(***************************************************************************)
(* logged_panic!(e) / logged_panic!(e, log): panic!("{}", log!(e, log))    *)
(***************************************************************************)
\* Mutant: the panic is raised with the event, which is never logged.
logged_panic_unlogged(fs, e, arg, oc) ==
    Outcome(fs, TRUE, to_string(e), None, << <<"panic", to_string(e)>> >>)

logged_panic(fs, e, arg, oc) ==
    LET r == log_macro(fs, e, arg, oc)
    IN  IF r.panicked THEN r
        ELSE Outcome(r.files, TRUE, to_string(r.ret), None,
                     r.effects \o << <<"panic", to_string(r.ret)>> >>)

(***************************************************************************)
(* check!(x) / check!(x, log): x.unwrap_or_else(|e| logged_panic!(e, log)) *)
(***************************************************************************)
\* Mutant: the value of an Ok is logged before it is returned.
check_logs_ok(fs, x, arg, oc) ==
    IF x.tag = "Ok"
    THEN LET r == log_macro(fs, Str(<<"a">>), arg, oc)
         IN  Outcome(r.files, r.panicked, r.msg,
                     IF r.panicked THEN None ELSE x.val, r.effects)
    ELSE logged_panic(fs, x.err, arg, oc)

check(fs, x, arg, oc) ==
    IF x.tag = "Ok" THEN Outcome(fs, FALSE, NoMsg, x.val, <<>>)
    ELSE logged_panic(fs, x.err, arg, oc)

(***************************************************************************)
(* The state machine of the log file operations.                           *)
(***************************************************************************)
\* What is remembered of an operation: its name and arguments, the outcome
\* of its system calls, the file system before it, and its outcome.
OpRecord(op, input, arg, oc, r) ==
    [op |-> op, input |-> input, arg |-> arg, file |-> FileOf(arg), oc |-> oc,
     pre |-> files, post |-> r.files, panicked |-> r.panicked, msg |-> r.msg,
     ret |-> r.ret, effects |-> r.effects]

\* The operation ends with outcome r: the file system, the panic and the
\* history are updated together.
Perform(op, input, arg, oc, r) ==
    /\ files' = r.files
    /\ status' = IF r.panicked THEN "panicked" ELSE "running"
    /\ panic_msg' = r.msg
    /\ prev' = IF last # None /\ last.op \in {"log", "clean"} /\ ~last.panicked
               THEN [op |-> last.op, file |-> last.file, event |-> last.input]
               ELSE None
    /\ last' = OpRecord(op, input, arg, oc, r)
    /\ UNCHANGED dm

\* The model keeps exploring log calls while the log files, together, stay
\* within MaxLines lines.
RECURSIVE LinesIn(_, _)
LinesIn(fs, names) ==
    IF names = {} THEN 0
    ELSE LET f == CHOOSE f \in names : TRUE
         IN  CountNL(fs[f].content) + LinesIn(fs, names \ {f})

Fits(arg, ev) ==
    LinesIn(files, FileNames) + CountNL(LogData(ev)) <= MaxLines

Log ==
    /\ status = "running"
    /\ \E ev \in Events, arg \in FileArgs :
         /\ Fits(arg, ev)
         /\ \E oc \in LogOutcomes(ev) :
              Perform("log", ev, arg, oc, log_macro(files, ev, arg, oc))

LoggedPanic ==
    /\ status = "running"
    /\ \E ev \in Events, arg \in FileArgs :
         /\ Fits(arg, ev)
         /\ \E oc \in LogOutcomes(ev) :
              Perform("logged_panic", ev, arg, oc, logged_panic(files, ev, arg, oc))

\* The DynResult values handed to check!
Results == {Ok(U32(v)) : v \in Payloads} \cup {dynerr(e) : e \in LoggedErrors}

\* The event check! would log for x: its error.  For an Ok the environment
\* still stands ready with an outcome for a log call that is never made.
CheckEvent(x) == IF x.tag = "Ok" THEN Str(<<"a">>) ELSE x.err

Check ==
    /\ status = "running"
    /\ \E x \in Results, arg \in FileArgs :
         /\ Fits(arg, CheckEvent(x))
         /\ \E oc \in LogOutcomes(CheckEvent(x)) :
              Perform("check", x, arg, oc, check(files, x, arg, oc))

Clean ==
    /\ status = "running"
    /\ \E arg \in FileArgs :
         \E oc \in CleanOutcomes :
              Perform("clean", None, arg, oc, clean(files, arg, oc))

\* The log files as the program may find them when it starts: absent, empty,
\* or holding text some earlier run left (not necessarily whole lines).
InitialContents == {Absent, File(<<>>), File(<<"x">>)}

NoDynmatch == None

Init ==
    /\ files \in [FileNames -> InitialContents]
    /\ status = "running"
    /\ panic_msg = NoMsg
    /\ prev = None
    /\ last = None
    /\ dm = NoDynmatch

NextLog == Log \/ LoggedPanic \/ Check \/ Clean

SpecLog == Init /\ [][NextLog]_vars

(***************************************************************************)
(* dynmatch!(e, type T1 {arm p => r, ..., _ => any}, ..., _ => end)        *)
(*                                                                         *)
(* A pattern tests the payload of the recovered value: a literal, or a     *)
(* binding that matches anything.  An arm is one or more patterns joined   *)
(* by `|` and an optional guard; its expression, like a group's `_` and    *)
(* the final `_`, is identified by its position in the invocation.         *)
(***************************************************************************)
Lit(v) == [pat |-> "lit", v |-> v]
Bind == [pat |-> "bind", v |-> 0]

NoGuard == [guard |-> "none", v |-> 0]
GuardEq(v) == [guard |-> "eq", v |-> v]      \* `if i.kind() == v`

\* The arms of the model: `0 | 1 => ..` and `i if i == 1 => ..`.  Both match
\* payload 1, only the first matches 0, and neither matches 2.
ArmChoices ==
    { [pats |-> <<Lit(0), Lit(1)>>, guard |-> NoGuard],
      [pats |-> <<Bind>>, guard |-> GuardEq(1)] }

SeqsUpTo(S, n) == UNION {[1..k -> S] : k \in 0..n}

Groups == [ty : ErrTypes, arms : SeqsUpTo(ArmChoices, MaxArms)]

\* the branch expressions of an invocation
ArmBranch(g, a) == [branch |-> "arm", group |-> g, arm |-> a]
AnyBranch(g) == [branch |-> "any", group |-> g, arm |-> 0]
EndBranch == [branch |-> "end", group |-> 0, arm |-> 0]

PatMatches(p, e) == p.pat = "bind" \/ (p.pat = "lit" /\ e.val = p.v)

GuardHolds(g, e) == g.guard = "none" \/ (g.guard = "eq" /\ e.val = g.v)

\* $( $pattern )|+ $( if $guard )?
ArmMatches(arm, e) ==
    /\ \E k \in 1..Len(arm.pats) : PatMatches(arm.pats[k], e)
    /\ GuardHolds(arm.guard, e)

\* match e { arms... _ => $any } of group g, from arm a on: the branch taken
RECURSIVE match_arms(_, _, _, _)

\* Mutant: a later matching arm is preferred to an earlier one.
match_arms_last(e, arms, g, a) ==
    IF a > Len(arms) THEN AnyBranch(g)
    ELSE LET rest == match_arms(e, arms, g, a + 1)
         IN  IF rest.branch = "arm" THEN rest
             ELSE IF ArmMatches(arms[a], e) THEN ArmBranch(g, a)
             ELSE rest

match_arms(e, arms, g, a) ==
    IF a > Len(arms) THEN AnyBranch(g)
    ELSE IF ArmMatches(arms[a], e) THEN ArmBranch(g, a)
    ELSE match_arms(e, arms, g, a + 1)

\* Mutant: the `else` after a group is missing, so the final block runs too.
GroupTaken_fallthrough(e, groups, g) ==
    [executed |-> <<match_arms(e, groups[g].arms, g, 1), EndBranch>>,
     recovered |-> << [group |-> g, value |-> e] >>]

\* The branch of the group that recovered e, and the value it recovered.
GroupTaken(e, groups, g) ==
    [executed |-> <<match_arms(e, groups[g].arms, g, 1)>>,
     recovered |-> << [group |-> g, value |-> e] >>]

\* The final block {$end}.
EndTaken == [executed |-> <<EndBranch>>, recovered |-> <<>>]

\* if let Some(e) = $e.downcast_ref::<$ty>() {...} else if ... else {$end},
\* from group g on: the branches executed and the values recovered
RECURSIVE dynmatch_from(_, _, _)

\* Mutant: a group none of whose arms match passes the error on to the
\* groups after it instead of running its own `_` expression.
dynmatch_from_skip(err, groups, g) ==
    IF g > Len(groups) THEN EndTaken
    ELSE LET e == downcast_ref(err, groups[g].ty)
         IN  IF e # None /\ match_arms(e, groups[g].arms, g, 1).branch = "arm"
             THEN GroupTaken(e, groups, g)
             ELSE dynmatch_from(err, groups, g + 1)

dynmatch_from(err, groups, g) ==
    IF g > Len(groups) THEN EndTaken
    ELSE LET e == downcast_ref(err, groups[g].ty)
         IN  IF e # None THEN GroupTaken(e, groups, g)
             ELSE dynmatch_from(err, groups, g + 1)

dynmatch(err, groups) == dynmatch_from(err, groups, 1)

\* A function fails with dynerr!(e) and its caller dispatches on the error
\* (one invocation of dynmatch! per behaviour: its evaluations are independent).
Dynmatch ==
    /\ dm = NoDynmatch
    /\ \E e \in ConcreteErrors, n \in 0..MaxGroups : \E groups \in [1..n -> Groups] :
        LET x == dynerr(e)
            r == dynmatch(x.err, groups)
        IN  /\ dm' = [e |-> e, err |-> x.err, groups |-> groups,
                      executed |-> r.executed, recovered |-> r.recovered]
            /\ UNCHANGED <<files, status, panic_msg, prev, last>>

InitMatch == Init /\ files = [f \in FileNames |-> Absent]

SpecMatch == InitMatch /\ [][Dynmatch]_vars

(***************************************************************************)
(* Properties of dynmatch!, checked under SpecMatch.                       *)
(***************************************************************************)
Dispatched == dm # NoDynmatch

MinOf(S) == CHOOSE m \in S : \A k \in S : m <= k

\* the groups whose declared type is the concrete type of the error
SameTypeGroups == {g \in 1..Len(dm.groups) : dm.groups[g].ty = dm.e.ty}

\* the arms of group g whose pattern and guard accept the original error
AcceptingArms(g) ==
    {a \in 1..Len(dm.groups[g].arms) : ArmMatches(dm.groups[g].arms[a], dm.e)}

\* C1: the error is handled by the first group, in declaration order, whose
\* declared type is the error's concrete type, and there by the first arm
\* whose pattern and guard match; that arm's expression is the only one
\* executed: nothing of a later group, and not the final catch-all.
C1_FirstGroupFirstArm ==
    (Dispatched /\ SameTypeGroups # {}) =>
        LET g == MinOf(SameTypeGroups)
        IN  AcceptingArms(g) # {} =>
                dm.executed = <<ArmBranch(g, MinOf(AcceptingArms(g)))>>

\* C1 happens: two groups declare the error's type, two arms of the first
\* accept the value, arms of the second accept it too, and the first arm of
\* the first group ran.
C1_Witness ==
    /\ Dispatched
    /\ Len(dm.groups) = 2
    /\ SameTypeGroups = {1, 2}
    /\ AcceptingArms(1) = {1, 2}
    /\ AcceptingArms(2) # {}
    /\ dm.groups[1].arms[1] # dm.groups[1].arms[2]
    /\ dm.executed = <<ArmBranch(1, 1)>>

\* C2: when none of the arms of the first group of the error's type match,
\* that group's own fallback is the only expression executed: no later group
\* is tried and the final catch-all does not run.
C2_GroupFallbackStops ==
    (Dispatched /\ SameTypeGroups # {}) =>
        LET g == MinOf(SameTypeGroups)
        IN  AcceptingArms(g) = {} => dm.executed = <<AnyBranch(g)>>

\* C2 happens: the first group has arms, none accepts the value, a later
\* group of the same type has an arm that would, and the first group's
\* fallback ran.
C2_Witness ==
    /\ Dispatched
    /\ SameTypeGroups = {1, 2}
    /\ Len(dm.groups[1].arms) > 0
    /\ AcceptingArms(1) = {}
    /\ AcceptingArms(2) # {}
    /\ dm.executed = <<AnyBranch(1)>>

\* C3: exactly one branch expression is executed, and it is the final
\* catch-all if and only if no group declares the error's concrete type.
C3_Exhaustive ==
    Dispatched =>
        /\ Len(dm.executed) = 1
        /\ (dm.executed[1] = EndBranch) <=> (SameTypeGroups = {})

\* C3 happens: groups are declared, none for the error's type, and the
\* final catch-all is what ran.
C3_Witness ==
    /\ Dispatched
    /\ Len(dm.groups) = 2
    /\ SameTypeGroups = {}
    /\ dm.executed = <<EndBranch>>

\* C10: every value a group recovers from the carrier that dynerr! made of
\* E is E itself, recovered by a group declared for E's type (a group of
\* another type recovers nothing); and when such a group is declared, E is
\* recovered, by the first of them.
C10_RoundTrip ==
    Dispatched =>
        /\ \A i \in 1..Len(dm.recovered) :
              /\ dm.recovered[i].value = dm.e
              /\ dm.groups[dm.recovered[i].group].ty = dm.e.ty
        /\ SameTypeGroups # {} =>
              dm.recovered = << [group |-> MinOf(SameTypeGroups), value |-> dm.e] >>

\* C10 happens: the first group is of another type and recovered nothing,
\* the second is of E's type and recovered E, with a payload that is not 0.
C10_Witness ==
    /\ Dispatched
    /\ SameTypeGroups = {2}
    /\ dm.e.val = 2
    /\ dm.recovered = << [group |-> 2, value |-> dm.e] >>

(***************************************************************************)
(* Properties of the log file operations, checked under SpecLog.           *)
(***************************************************************************)
LastIs(op) == last # None /\ last.op = op

\* the file an operation invoked with last.arg is to act on
Target == IF last.arg = NoArg THEN "event.log" ELSE last.arg

PreExists == last.pre[Target].exists
PreContent == last.pre[Target].content
NowContent == files[Target].content

\* the line a logged event makes: its display text and a newline
Line(ev) == to_string(ev) \o <<NL>>

\* the last operation's open and write both succeeded
IoSucceeded == last.oc.open = IoOk /\ last.oc.write = IoOk

\* C4 as stated: on a file that exists, a log call leaves the old content in
\* place as a prefix, and a call that returns has appended exactly one
\* newline-terminated line holding the event's display text; after log(e1)
\* then log(e2) the file ends with line e1 followed by line e2.
C4_OneLinePerCall ==
    (LastIs("log") /\ PreExists) =>
        /\ files[Target].exists /\ IsPrefix(PreContent, NowContent)
        /\ ~last.panicked =>
              /\ NowContent = PreContent \o Line(last.input)
              /\ CountNL(NowContent) = CountNL(PreContent) + 1
              /\ (prev # None /\ prev.op = "log" /\ prev.file = Target) =>
                    IsSuffix(Line(prev.event) \o Line(last.input), NowContent)

\* C4 amended: as C4, but what a returning call appends is the event's
\* display text followed by one newline, which is one line only when the
\* text holds no newline: a text with k newlines adds k + 1 lines.
C4_AppendsTextAndNewline ==
    (LastIs("log") /\ PreExists) =>
        /\ files[Target].exists /\ IsPrefix(PreContent, NowContent)
        /\ ~last.panicked =>
              /\ NowContent = PreContent \o Line(last.input)
              /\ CountNL(NowContent)
                    = CountNL(PreContent) + CountNL(to_string(last.input)) + 1
              /\ (prev # None /\ prev.op = "log" /\ prev.file = Target) =>
                    IsSuffix(Line(prev.event) \o Line(last.input), NowContent)

\* C4 happens: two log calls of different events returned, one after the
\* other, on a file that held text before the first.
C4_Witness ==
    /\ LastIs("log") /\ ~last.panicked
    /\ prev # None /\ prev.op = "log" /\ prev.file = Target
    /\ prev.event # last.input
    /\ Len(PreContent) > Len(Line(prev.event))
    /\ NowContent = PreContent \o Line(last.input)

\* C5 as stated: a log call that returns on a file that did not exist has
\* created it with a creation sentinel entry before the event's line.
C5_SentinelThenEvent ==
    (LastIs("log") /\ ~PreExists /\ ~last.panicked) =>
        /\ files[Target].exists
        /\ IsSuffix(Line(last.input), NowContent)
        /\ Len(NowContent) > Len(Line(last.input))

\* C5 amended: a log call that returns on a file that did not exist
\* (directly after clean deleted it, too) has created it holding exactly
\* the event's display text and a newline: no sentinel entry is written.
C5_CreatedWithEventOnly ==
    (LastIs("log") /\ ~PreExists /\ ~last.panicked) =>
        /\ files[Target].exists
        /\ NowContent = Line(last.input)

\* C5 happens: clean on the file returned, then log on it returned, and the
\* file, absent in between, now exists.
C5_Witness ==
    /\ LastIs("log") /\ ~last.panicked /\ ~PreExists
    /\ prev # None /\ prev.op = "clean" /\ prev.file = Target
    /\ files[Target].exists

\* what check! on Err(e) does when the log's open and write succeed: the
\* line of e is appended first, then the panic carries e's display text
CheckLoggedThenPanicked ==
    /\ NowContent = PreContent \o Line(last.input.err)
    /\ files[Target].exists
    /\ panic_msg = to_string(last.input.err)
    /\ last.effects = << <<"open", Target>>,
                         <<"write", Target, Line(last.input.err)>>,
                         <<"panic", to_string(last.input.err)>> >>

\* C6 as stated: check! on Err(e) never returns; the line of e is appended
\* to the chosen file and then the process panics with e's display text.
C6_LogThenAbort ==
    (LastIs("check") /\ last.input.tag = "Err") =>
        /\ status = "panicked" /\ last.ret = None
        /\ CheckLoggedThenPanicked

\* C6 amended: check! on Err(e) never returns and ends as logged_panic! on e
\* does.  When the log's open and write succeed, the line of e is appended
\* and then the process panics with e's display text.  When one of them
\* fails, the process panics there with log's diagnostic: no complete line
\* was appended and the panic of logged_panic! is never raised.
C6_LogThenAbortUnlessIoFails ==
    (LastIs("check") /\ last.input.tag = "Err") =>
        /\ status = "panicked" /\ last.ret = None
        /\ LET r == logged_panic(last.pre, last.input.err, last.arg, last.oc)
           IN  files = r.files /\ panic_msg = r.msg /\ last.effects = r.effects
        /\ IoSucceeded => CheckLoggedThenPanicked
        /\ ~IoSucceeded =>
              /\ panic_msg # to_string(last.input.err)
              /\ Contains(panic_msg, PASSED_TEXT)
              /\ \A i \in 1..Len(last.effects) : last.effects[i][1] # "panic"
              /\ IsPrefix(PreContent, NowContent)
              /\ Len(NowContent) < Len(PreContent) + Len(Line(last.input.err))

\* C6 happens: check! on an Err appended the error's line to a file that
\* held text and panicked with the error's text.
C6_Witness ==
    /\ LastIs("check") /\ last.input.tag = "Err"
    /\ IoSucceeded /\ PreExists /\ PreContent # <<>>
    /\ status = "panicked"
    /\ NowContent = PreContent \o Line(last.input.err)

\* C7: check! on Ok(v) returns v, makes no system call, leaves every file
\* as it was (absent files stay absent) and does not panic.
C7_OkReturnsWithoutIo ==
    (LastIs("check") /\ last.input.tag = "Ok") =>
        /\ last.ret = last.input.val
        /\ last.effects = <<>>
        /\ files = last.pre
        /\ status = "running" /\ panic_msg = NoMsg

\* C7 happens: check! on an Ok returned its value while the chosen file was
\* absent and an open of it would have failed.
C7_Witness ==
    /\ LastIs("check") /\ last.input.tag = "Ok"
    /\ last.ret = U32(2)
    /\ last.oc.open # IoOk
    /\ ~files[Target].exists
    /\ status = "running"

\* the event the last operation handed to log
LoggedEvent == IF last.op = "check" THEN last.input.err ELSE last.input

CallsLog ==
    /\ last # None
    /\ \/ last.op \in {"log", "logged_panic"}
       \/ last.op = "check" /\ last.input.tag = "Err"

\* C8: when the open or the write of a log call fails, the call does not
\* return: the process panics at that point, with a message that holds the
\* I/O error and the display text of the event.
C8_IoFailureAborts ==
    (CallsLog /\ ~IoSucceeded) =>
        LET e == IF last.oc.open # IoOk THEN last.oc.open ELSE last.oc.write
        IN  /\ status = "panicked" /\ last.ret = None
            /\ Contains(panic_msg, DisplayError(e))
            /\ Contains(panic_msg, to_string(LoggedEvent))
            /\ last.effects[Len(last.effects)][1] \in {"open failed", "write failed"}
            /\ last.oc.open # IoOk => files = last.pre

\* C8 happens: a log call opened the file, its write failed after part of
\* the data, and the process panicked.
C8_Witness ==
    /\ LastIs("log")
    /\ last.oc.open = IoOk /\ last.oc.write # IoOk /\ last.oc.written > 0
    /\ status = "panicked"
    /\ Len(NowContent) > Len(PreContent)

\* C9: clean on a file that exists either deletes it, so that it does not
\* exist afterwards, or panics because the deletion failed; on a file that
\* does not exist it does nothing (no file is created, no panic); invoked
\* without a file it acts on event.log; no other file is touched.
C9_Clean ==
    LastIs("clean") =>
        /\ PreExists =>
              \/ ~files[Target].exists /\ status = "running"
              \/ status = "panicked" /\ files = last.pre
        /\ ~PreExists => files = last.pre /\ status = "running"
        /\ \A f \in FileNames \ {Target} : files[f] = last.pre[f]

====
